---- MODULE Spec2Model ----
(***************************************************************************)
(* Model of the asynchronous task consumer of crochee/lirity (package      *)
(* async): Subscribe's stream-reading loop, handleMessage, the per-delivery *)
(* pipeline handle, and the collaborators it drives (worker pool, handler  *)
(* registry, payload pool, broker deliveries).                             *)
(***************************************************************************)
EXTENDS Integers, Sequences, FiniteSets, TLC

\* Bound of the model: how many per-delivery tasks the loop may submit.
MaxTasks == 2

\* Bound of the model: how many Consume calls may fail.
MaxFails == 2

\* Bound of the model: how many times a With... result becomes the receiver
\* of further With... calls.
MaxChain == 2

\* Task names carried by decoded payloads, and the callbacks a user registers.
Names == {"a", "b"}
Callbacks == {"h1"}

\* What a delivery's body is: "zero" is the zero-value amqp.Delivery a receive
\* from a closed channel yields; the others are deliveries the broker sent.
RealKinds == {"badEnvelope", "badPayload", "invalid", "ok"}

Deliveries ==
    {[kind |-> k, name |-> ""] : k \in RealKinds \ {"ok"}}
        \cup {[kind |-> "ok", name |-> n] : n \in Names}

ZeroDelivery == [kind |-> "zero", name |-> ""]

VARIABLES
    cancelled,  \* the shared context is done
    subPc,      \* Subscribe's caller: "idle", "waiting" (in pool.Wait), "returned"
    subRet,     \* the value Subscribe returned ("none" before it returns)
    loopPc,     \* the stream-reading task: "idle","top","consume","handle","exited"
    stream,     \* the channel Consume returned: "none", "open", "closed"
    tasks,      \* the per-delivery pool tasks, in submission order
    wg,         \* the pool's count of scheduled functions that have not returned
    recovered,  \* how often the pool's recovery callback ran
    registry,   \* the manager's map: name -> callback, "none" when absent
    lastOp,     \* per name, the last registry call made for it: "never", "Register", "Unregister"
    free,       \* Task Parameter instances lying in the payload pool
    allocated,  \* number of Task Parameter instances created so far
    fails,      \* how many Consume calls have failed
    recv,       \* package e: the ErrCode a With... method is called on
    res,        \* package e: the ErrCode the last call returned
    op          \* package e: the last call, its integer argument, its receiver before

consumerVars == <<cancelled, subPc, subRet, loopPc, stream, tasks, wg,
                  recovered, registry, lastOp, free, allocated, fails>>

errVars == <<recv, res, op>>

vars == <<consumerVars, errVars>>

Finished(t) == t.pc \in {"done", "faulted"}

TaskIds == 1..Len(tasks)

\* The Ack and Reject calls made on a task's delivery, in order.
IsTerminal(e) == e \in {"Ack(false)", "Ack(true)", "Reject(false)", "Reject(true)"}
Calls(t) == SelectSeq(t.ev, IsTerminal)
Has(t, e) == \E k \in 1..Len(t.ev) : t.ev[k] = e
Count(t, e) == Len(SelectSeq(t.ev, LAMBDA x : x = e))

----------------------------------------------------------------------------
(* Broker deliveries                                                        *)

\* amqp.Delivery.Reject(requeue) and Ack(multiple): the call is recorded on the
\* delivery; what it returns is the caller's input e.
Reject(t, requeue) ==
    [t EXCEPT !.ev = Append(@, IF requeue THEN "Reject(true)" ELSE "Reject(false)")]

Ack(t, multiple) ==
    [t EXCEPT !.ev = Append(@, IF multiple THEN "Ack(true)" ELSE "Ack(false)")]

Log(t, e) == [t EXCEPT !.ev = Append(@, e)]

----------------------------------------------------------------------------
(* Worker pool (routine.Pool)                                               *)

NewTask(d) ==
    [d |-> d, pc |-> "start", ev |-> <<>>, param |-> 0, cb |-> "none",
     seen |-> "", herr |-> "none", faultsBefore |-> recovered]

\* pool.Go(fn): counts the function and starts it; never blocks.
PoolGo(n) == n + 1

\* The wrapper around a scheduled function, when the function returns.
PoolDone(n) == n - 1

\* pool.Wait() returns once no scheduled function is outstanding.
PoolWaitReturns == wg = 0

----------------------------------------------------------------------------
(* Handler registry (manager)                                               *)

ManagerRegister(reg, name, callback) == [reg EXCEPT ![name] = callback]

ManagerUnregister(reg, name) == [reg EXCEPT ![name] = "none"]

ManagerLookup(reg, name) == reg[name]

\* taskConsumer.Register delegates to the manager. lastOp remembers the call.
Register(name, callback) ==
    /\ registry' = ManagerRegister(registry, name, callback)
    /\ lastOp' = [lastOp EXCEPT ![name] = "Register"]
    /\ UNCHANGED <<cancelled, subPc, subRet, loopPc, stream, tasks, wg,
                   recovered, free, allocated,
                   fails, errVars>>

\* An Unregister that forgets to reach the manager.
UnregisterNoop(name) ==
    /\ registry' = registry
    /\ lastOp' = [lastOp EXCEPT ![name] = IF @ = "never" THEN @ ELSE "Unregister"]
    /\ UNCHANGED <<cancelled, subPc, subRet, loopPc, stream, tasks, wg,
                   recovered, free, allocated,
                   fails, errVars>>

\* taskConsumer.Unregister delegates to the manager. lastOp remembers the
\* call when the name had been registered before.
Unregister(name) ==
    /\ registry' = ManagerUnregister(registry, name)
    /\ lastOp' = [lastOp EXCEPT ![name] = IF @ = "never" THEN @ ELSE "Unregister"]
    /\ UNCHANGED <<cancelled, subPc, subRet, loopPc, stream, tasks, wg,
                   recovered, free, allocated,
                   fails, errVars>>

----------------------------------------------------------------------------
(* Subscribe and the stream-reading loop                                    *)

\* A Subscribe that hands the first per-message error to its caller.
SubscribeResultFirstErr ==
    IF \E i \in TaskIds : tasks[i].herr = "err" \/ tasks[i].pc = "faulted"
       THEN "err" ELSE "nil"

\* The value Subscribe returns.
SubscribeResult == "nil"

\* Subscribe: pool.Go(loop), then block in pool.Wait().
SubscribeCall ==
    /\ subPc = "idle"
    /\ subPc' = "waiting"
    /\ loopPc' = "top"
    /\ wg' = PoolGo(wg)
    /\ UNCHANGED <<cancelled, subRet, stream, tasks, recovered,
                   registry, lastOp, free, allocated,
                   fails, errVars>>

\* A Subscribe that does not wait for the pool.
SubscribeNoWait == TRUE

\* Subscribe returns after pool.Wait().
SubscribeMayReturn == PoolWaitReturns

SubscribeReturn ==
    /\ subPc = "waiting"
    /\ SubscribeMayReturn
    /\ subPc' = "returned"
    /\ subRet' = SubscribeResult
    /\ UNCHANGED <<cancelled, loopPc, stream, tasks, wg, recovered,
                   registry, lastOp, free, allocated,
                   fails, errVars>>

\* An outer loop without the ctx.Done() check.
LoopCheckIgnoresCancel ==
    /\ loopPc = "top"
    /\ loopPc' = "consume"
    /\ UNCHANGED <<cancelled, subPc, subRet, stream, tasks, wg, recovered,
                   registry, lastOp, free, allocated,
                   fails, errVars>>

\* Top of the outer loop: select on ctx.Done() with a default.
LoopCheck ==
    /\ loopPc = "top"
    /\ IF cancelled
          THEN loopPc' = "exited" /\ wg' = PoolDone(wg)
          ELSE loopPc' = "consume" /\ wg' = wg
    /\ UNCHANGED <<cancelled, subPc, subRet, stream, tasks, recovered,
                   registry, lastOp, free, allocated,
                   fails, errVars>>

\* channel.Consume succeeds: handleMessage starts on the new stream.
ConsumeOk ==
    /\ loopPc = "consume"
    /\ loopPc' = "handle"
    /\ stream' = "open"
    /\ UNCHANGED <<cancelled, subPc, subRet, tasks, wg, recovered, registry,
                   lastOp, free, allocated,
                   fails, errVars>>

\* A failed Consume that ends the loop instead of trying again.
ConsumeFailEndsLoop ==
    /\ loopPc = "consume"
    /\ fails < MaxFails
    /\ loopPc' = "exited"
    /\ wg' = PoolDone(wg)
    /\ fails' = fails + 1
    /\ UNCHANGED <<cancelled, subPc, subRet, stream, tasks, recovered,
                   registry, lastOp, free, allocated, errVars>>

\* channel.Consume fails: logged, continue.
ConsumeFail ==
    /\ loopPc = "consume"
    /\ fails < MaxFails
    /\ loopPc' = "top"
    /\ fails' = fails + 1
    /\ UNCHANGED <<cancelled, subPc, subRet, stream, tasks, wg, recovered,
                   registry, lastOp, free, allocated, errVars>>

\* A handleMessage without the ctx.Done() case.
HandleMessageNeverExits == FALSE

\* Whether handleMessage's select may take the ctx.Done() case.
HandleMessageMayExit == cancelled

HandleMessageExit ==
    /\ loopPc = "handle"
    /\ HandleMessageMayExit
    /\ loopPc' = "top"
    /\ UNCHANGED <<cancelled, subPc, subRet, stream, tasks, wg,
                   recovered, registry, lastOp, free, allocated,
                   fails, errVars>>

\* What `v := <-deliveries` yields: a delivery the broker sent on an open
\* stream, the zero value on a closed one.
Received ==
    IF stream = "open" THEN Deliveries
    ELSE IF stream = "closed" THEN {ZeroDelivery}
    ELSE {}

\* handleMessage's receive case: one pool task per received value.
Pull ==
    /\ loopPc = "handle"
    /\ Len(tasks) < MaxTasks
    /\ \E d \in Received :
          /\ tasks' = Append(tasks, NewTask(d))
          /\ wg' = PoolGo(wg)
    /\ UNCHANGED <<cancelled, subPc, subRet, loopPc, stream, recovered,
                   registry, lastOp, free, allocated,
                   fails, errVars>>

\* The broker closes the delivery stream.
CloseStream ==
    /\ stream = "open"
    /\ stream' = "closed"
    /\ UNCHANGED <<cancelled, subPc, subRet, loopPc, tasks, wg,
                   recovered, registry, lastOp, free, allocated,
                   fails, errVars>>

\* The owner of the root context cancels it.
Cancel ==
    /\ ~cancelled
    /\ cancelled' = TRUE
    /\ UNCHANGED <<subPc, subRet, loopPc, stream, tasks, wg, recovered,
                   registry, lastOp, free, allocated,
                   fails, errVars>>

----------------------------------------------------------------------------
(* Payload pool (Get / Put)                                                 *)

\* Get(): an instance lying in the pool, or a newly made one.
GetChoices == free \cup {allocated + 1}

\* Put(param): the instance lies in the pool again.
Put(pool, p) == pool \cup {p}

----------------------------------------------------------------------------
(* handle: the pipeline of one delivery                                     *)

\* handle returns e, what its terminal call returned; the pool task logs a
\* non-nil error ("handle failed") and ends.
HandleReturn(t, e) ==
    [(IF e = "err" THEN Log(t, "handle failed") ELSE t)
        EXCEPT !.pc = "done", !.herr = e]

RejectRequeueTrue == TRUE

\* The argument of every d.Reject call in handle.
RejectRequeue == FALSE

\* A reject path that calls Reject again when the first call failed.
HandleRejectRetry(t, why, e) ==
    HandleReturn(IF e = "err"
                    THEN Reject(Reject(Log(t, why), RejectRequeue), RejectRequeue)
                    ELSE Reject(Log(t, why), RejectRequeue), e)

\* The reject paths of handle: log, d.Reject(false), return what it returned.
HandleReject(t, why, e) == HandleReturn(Reject(Log(t, why), RejectRequeue), e)

AckMultipleTrue == TRUE

\* The argument of d.Ack at the end of handle.
AckMultiple == FALSE

HandleAck(t, e) == HandleReturn(Ack(t, AckMultiple), e)

\* marshal.Unmarshal(&d) fails on a delivery without a decodable envelope.
UnmarshalFails(d) == d.kind \in {"zero", "badEnvelope"}

\* A validation whose error is ignored.
ValidateNeverFails(d) == FALSE

\* handler.Unmarshal(payload, param) fails on a payload that is not a Task
\* Parameter; validator.ValidateStruct(param) fails on an invalid one.
DecodeFails(d) == d.kind = "badPayload"
ValidateFails(d) == d.kind = "invalid"

\* handle up to the call of manager.Run: envelope decode, Get, payload decode,
\* validation. e is what Reject returns if it is called. The reject paths
\* after Get return without Put.
TaskDecode(i, e) ==
    LET t == tasks[i] IN
    /\ t.pc = "start"
    /\ IF UnmarshalFails(t.d)
          THEN /\ tasks' = [tasks EXCEPT ![i] = HandleReject(t, "unmarshal failed", e)]
               /\ wg' = PoolDone(wg)
               /\ UNCHANGED <<free, allocated>>
          ELSE \E p \in GetChoices :
               LET g == [Log(Log(t, "unmarshal"), "get") EXCEPT !.param = p] IN
               /\ allocated' = IF p > allocated THEN p ELSE allocated
               /\ free' = free \ {p}
               /\ IF DecodeFails(t.d)
                     THEN /\ tasks' = [tasks EXCEPT ![i] =
                                 HandleReject(g, "decode failed", e)]
                          /\ wg' = PoolDone(wg)
                     ELSE IF ValidateFails(t.d)
                     THEN /\ tasks' = [tasks EXCEPT ![i] =
                                 HandleReject(Log(g, "decode"), "validate failed", e)]
                          /\ wg' = PoolDone(wg)
                     ELSE /\ e = "nil"
                          /\ tasks' = [tasks EXCEPT ![i] =
                                 [Log(Log(g, "decode"), "validate") EXCEPT !.pc = "run"]]
                          /\ wg' = wg
    /\ UNCHANGED <<cancelled, subPc, subRet, loopPc, stream, recovered,
                   registry, lastOp,
                   fails, errVars>>

\* An ending of handle that acknowledges whatever manager.Run returned.
AfterRunAckAlways(t, err, e) == HandleAck(Log(t, "put"), e)

\* After manager.Run returned err: Put(param), then Reject(false) on an error
\* and Ack(false) otherwise. e is what the terminal call returns.
AfterRun(t, err, e) ==
    IF err # "nil" THEN HandleReject(Log(t, "put"), "run failed", e)
    ELSE HandleAck(Log(t, "put"), e)

\* A dispatch that puts the parameter back before manager.Run uses it.
TaskRunPutFirst(i, e) ==
    LET t == tasks[i]
        cb == ManagerLookup(registry, t.d.name)
        l == [Log(Log(t, "put"), "lookup") EXCEPT !.seen = lastOp[t.d.name]]
    IN
    /\ t.pc = "run"
    /\ free' = Put(free, t.param)
    /\ IF cb = "none"
          THEN /\ tasks' = [tasks EXCEPT ![i] =
                      HandleReject(Log(l, "handler not found"), "run failed", e)]
               /\ wg' = PoolDone(wg)
          ELSE /\ e = "nil"
               /\ tasks' = [tasks EXCEPT ![i] =
                      [Log(l, "invoke") EXCEPT !.pc = "handler", !.cb = cb]]
               /\ wg' = wg
    /\ UNCHANGED <<cancelled, subPc, subRet, loopPc, stream, recovered,
                   registry, lastOp, allocated,
                   fails, errVars>>

\* manager.Run looks the task name up; without a handler it returns
\* "handler not found" and handle goes on to Put and Reject.
TaskRun(i, e) ==
    LET t == tasks[i]
        cb == ManagerLookup(registry, t.d.name)
        l == [Log(t, "lookup") EXCEPT !.seen = lastOp[t.d.name]]
    IN
    /\ t.pc = "run"
    /\ IF cb = "none"
          THEN /\ tasks' = [tasks EXCEPT ![i] =
                      AfterRun(Log(l, "handler not found"), "not found", e)]
               /\ free' = Put(free, t.param)
               /\ wg' = PoolDone(wg)
          ELSE /\ e = "nil"
               /\ tasks' = [tasks EXCEPT ![i] =
                      [Log(l, "invoke") EXCEPT !.pc = "handler", !.cb = cb]]
               /\ UNCHANGED <<free, wg>>
    /\ UNCHANGED <<cancelled, subPc, subRet, loopPc, stream, recovered,
                   registry, lastOp, allocated,
                   fails, errVars>>

\* The handler returns r ("nil" or "err"); manager.Run returns it verbatim.
HandlerReturn(i, r, e) ==
    LET t == tasks[i] IN
    /\ t.pc = "handler"
    /\ tasks' = [tasks EXCEPT ![i] =
           AfterRun(Log(t, IF r = "nil" THEN "return nil" ELSE "return err"), r, e)]
    /\ free' = Put(free, t.param)
    /\ wg' = PoolDone(wg)
    /\ UNCHANGED <<cancelled, subPc, subRet, loopPc, stream, recovered,
                   registry, lastOp, allocated,
                   fails, errVars>>

\* The pool's wrapper when the scheduled function raises a runtime fault: the
\* fault is intercepted and the function counts as returned.
PoolRecover(t) == [Log(t, "recover") EXCEPT !.pc = "faulted"]

\* A fault that is not contained: it takes the stream-reading task down too.
HandlerFaultStopsLoop(i) ==
    LET t == tasks[i] IN
    /\ t.pc = "handler"
    /\ tasks' = [tasks EXCEPT ![i] = PoolRecover(Log(t, "panic"))]
    /\ recovered' = recovered + 1
    /\ loopPc' = "exited"
    /\ wg' = PoolDone(PoolDone(wg))
    /\ UNCHANGED <<cancelled, subPc, subRet, stream, registry, lastOp,
                   free, allocated,
                   fails, errVars>>

\* A fault path on which the parameter is still handed back (a deferred Put).
HandlerFaultPuts(i) ==
    LET t == tasks[i] IN
    /\ t.pc = "handler"
    /\ tasks' = [tasks EXCEPT ![i] = PoolRecover(Log(Log(t, "panic"), "put"))]
    /\ free' = Put(free, t.param)
    /\ recovered' = recovered + 1
    /\ wg' = PoolDone(wg)
    /\ UNCHANGED <<cancelled, subPc, subRet, loopPc, stream, registry, lastOp,
                   allocated,
                   fails, errVars>>

\* The handler raises a runtime fault: it unwinds handle and the task
\* function, reaches the pool's wrapper, and the recovery callback installed
\* by NewTaskConsumer logs it.
HandlerFault(i) ==
    LET t == tasks[i] IN
    /\ t.pc = "handler"
    /\ tasks' = [tasks EXCEPT ![i] = PoolRecover(Log(t, "panic"))]
    /\ recovered' = recovered + 1
    /\ wg' = PoolDone(wg)
    /\ UNCHANGED <<cancelled, subPc, subRet, loopPc, stream, registry, lastOp,
                   free, allocated,
                   fails, errVars>>

----------------------------------------------------------------------------
(* Package e: ErrCode, an HTTP status code followed by a 5-digit error code  *)

codeBit == 100000

\* Go's int at its smallest width, 32 bits (it is 32 or 64 bits wide,
\* depending on the target).
MaxInt == 32767 * 65536 + 65535
MinInt == -MaxInt - 1

\* Go's integer division and remainder truncate toward zero.
GoDiv(a, b) == IF a >= 0 \/ a % b = 0 THEN a \div b ELSE (a \div b) + 1
GoMod(a, b) == a - GoDiv(a, b) * b

\* Go's int addition wraps around.
GoAdd(a, b) ==
    IF a >= 0 /\ b >= 0 /\ a > MaxInt - b
       THEN (((a - MaxInt) - 1) + b) - MaxInt - 1
    ELSE IF a < 0 /\ b < 0 /\ a < MinInt - b
       THEN (((a + MaxInt) + 1) + b) + MaxInt + 1
    ELSE a + b

\* s * codeBit in Go's int, wrapping around, for s >= 0 below 60000 and for
\* every s a division by codeBit can yield; computed in 16-bit halves.
MulCodeBit(s) ==
    IF s * s <= (MaxInt \div codeBit) * (MaxInt \div codeBit) THEN s * codeBit
    ELSE LET half == 65536
             a  == s * (codeBit - half)
             hi == (s + a \div half) % half
             lo == a % half
         IN IF hi >= half \div 2 THEN (hi - half) * half + lo ELSE hi * half + lo

\* Froze(code, message)
Froze(code, message) == [code |-> code, msg |-> message, result |-> "nil"]

StatusCode(e) == GoDiv(e.code, codeBit)

Code(e) == GoMod(e.code, codeBit)

\* Each With... method works on a copy (ec := *e) and returns it; recv is the
\* receiver after the call, out the returned value.

\* A WithStatusCode that adds the new status to the whole stored code.
WithStatusCodeAddsToOld(e, statusCode) ==
    [recv |-> e, out |-> [e EXCEPT !.code = GoAdd(e.code, MulCodeBit(statusCode))]]

WithStatusCode(e, statusCode) ==
    [recv |-> e, out |-> [e EXCEPT !.code = GoAdd(Code(e), MulCodeBit(statusCode))]]

WithCode(e, code) ==
    [recv |-> e, out |-> [e EXCEPT !.code = GoAdd(MulCodeBit(StatusCode(e)), code)]]

WithMessage(e, m) == [recv |-> e, out |-> [e EXCEPT !.msg = m]]

WithResult(e, r) == [recv |-> e, out |-> [e EXCEPT !.result = r]]

\* Inputs: stored codes (the codes of the package's own errors among them),
\* status and error-code arguments, messages, results.
CodeInputs ==
    {0, 99999, 40010001, 40410002, 50010004,
     (MaxInt \div codeBit) * codeBit - 1, (MaxInt \div codeBit) * codeBit, MaxInt}
StatusInputs ==
    {0, 200, 404, 500, MaxInt \div codeBit - 1, MaxInt \div codeBit,
     MaxInt \div codeBit + 1, 2 * (MaxInt \div codeBit)}
CodeArgs == {0, 1, 10004, (MaxInt % codeBit), (MaxInt % codeBit) + 1, codeBit - 1}
Messages == {"", "m"}
ResultInputs == {"nil", "r"}

Call(name, n, r) ==
    /\ op' = [name |-> name, n |-> n, before |-> recv, chain |-> op.chain]
    /\ recv' = r.recv
    /\ res' = r.out
    /\ UNCHANGED consumerVars

DoWithStatusCode(s) == Call("WithStatusCode", s, WithStatusCode(recv, s))

DoWithCode(c) == Call("WithCode", c, WithCode(recv, c))

DoWithMessage(m) == Call("WithMessage", 0, WithMessage(recv, m))

DoWithResult(r) == Call("WithResult", 0, WithResult(recv, r))

\* The caller goes on with the value a call returned.
Adopt ==
    /\ res # recv
    /\ op.chain < MaxChain
    /\ recv' = res
    /\ op' = [name |-> "Froze", n |-> 0, before |-> res, chain |-> op.chain + 1]
    /\ UNCHANGED <<res, consumerVars>>

Errs == {"nil", "err"}

Init ==
    /\ cancelled = FALSE
    /\ subPc = "idle"
    /\ subRet = "none"
    /\ loopPc = "idle"
    /\ stream = "none"
    /\ tasks = <<>>
    /\ wg = 0
    /\ recovered = 0
    /\ registry = [n \in Names |-> "none"]
    /\ lastOp = [n \in Names |-> "never"]
    /\ free = {}
    /\ allocated = 0
    /\ fails = 0
    /\ recv = Froze(0, "")
    /\ res = Froze(0, "")
    /\ op = [name |-> "Froze", n |-> 0, before |-> Froze(0, ""), chain |-> 0]

Next ==
    \/ SubscribeCall
    \/ SubscribeReturn
    \/ LoopCheck
    \/ ConsumeOk
    \/ ConsumeFail
    \/ HandleMessageExit
    \/ Pull
    \/ CloseStream
    \/ Cancel
    \/ \E n \in Names, c \in Callbacks : Register(n, c)
    \/ \E n \in Names : Unregister(n)
    \/ \E i \in TaskIds, e \in Errs : TaskDecode(i, e)
    \/ \E i \in TaskIds, e \in Errs : TaskRun(i, e)
    \/ \E i \in TaskIds, r \in Errs, e \in Errs : HandlerReturn(i, r, e)
    \/ \E i \in TaskIds : HandlerFault(i)

Spec == Init /\ [][Next]_vars

\* Package e on its own: any stored code, any sequence of With... calls.
InitErr ==
    /\ cancelled = FALSE
    /\ subPc = "idle"
    /\ subRet = "none"
    /\ loopPc = "idle"
    /\ stream = "none"
    /\ tasks = <<>>
    /\ wg = 0
    /\ recovered = 0
    /\ registry = [n \in Names |-> "none"]
    /\ lastOp = [n \in Names |-> "never"]
    /\ free = {}
    /\ allocated = 0
    /\ fails = 0
    /\ \E k \in CodeInputs, m \in Messages :
          /\ recv = Froze(k, m)
          /\ res = Froze(k, m)
          /\ op = [name |-> "Froze", n |-> 0, before |-> Froze(k, m), chain |-> 0]

NextErr ==
    \/ \E s \in StatusInputs : DoWithStatusCode(s)
    \/ \E c \in CodeArgs : DoWithCode(c)
    \/ \E m \in Messages : DoWithMessage(m)
    \/ \E r \in ResultInputs : DoWithResult(r)
    \/ Adopt

SpecErr == InitErr /\ [][NextErr]_vars

----------------------------------------------------------------------------
(* Scheduling: every runnable goroutine is eventually run, a select takes    *)
(* each ready case eventually, Consume and every handler return.            *)

TaskStep(i) ==
    /\ i \in TaskIds
    /\ \/ \E e \in Errs : TaskDecode(i, e)
       \/ \E e \in Errs : TaskRun(i, e)
       \/ \E r \in Errs, e \in Errs : HandlerReturn(i, r, e)
       \/ HandlerFault(i)

Fairness ==
    /\ WF_vars(LoopCheck)
    /\ WF_vars(ConsumeOk \/ ConsumeFail)
    /\ WF_vars(HandleMessageExit)
    /\ WF_vars(SubscribeReturn)
    /\ \A i \in 1..MaxTasks : WF_vars(TaskStep(i))

FairSpec == Init /\ [][Next]_vars /\ Fairness

----------------------------------------------------------------------------
(* Properties                                                               *)

Acked(t) == Has(t, "Ack(false)") \/ Has(t, "Ack(true)")
Rejected(t) == Has(t, "Reject(false)") \/ Has(t, "Reject(true)")
Invoked(t) == Has(t, "invoke")

\* C1: every delivery pulled from the stream gets exactly one terminal call
\* (Ack or Reject): never two, never both kinds, and none once its task has
\* ended.
C1_ExactlyOneTerminalCall ==
    \A i \in TaskIds :
        /\ Len(Calls(tasks[i])) <= 1
        /\ Finished(tasks[i]) => Len(Calls(tasks[i])) = 1

\* C2: a delivery whose envelope decode (marshal.Unmarshal) fails is rejected
\* with requeue=false exactly once, is never acked, and no handler runs for it.
C2_UnmarshalFailureRejected ==
    \A i \in TaskIds :
        (UnmarshalFails(tasks[i].d) /\ tasks[i].pc # "start") =>
            /\ Calls(tasks[i]) = <<"Reject(false)">>
            /\ ~Invoked(tasks[i])
            /\ tasks[i].param = 0
            /\ tasks[i].pc = "done"

C2_Witness ==
    \E i \in TaskIds :
        /\ tasks[i].d.kind = "badEnvelope"
        /\ tasks[i].pc = "done"
        /\ Has(tasks[i], "unmarshal failed")

\* C3: a delivery that decodes and validates and whose handler returns nil is
\* acked with multiple=false exactly once and never rejected.
C3_HandlerNilAcked ==
    \A i \in TaskIds :
        /\ Has(tasks[i], "return nil") =>
              /\ Calls(tasks[i]) = <<"Ack(false)">>
              /\ Has(tasks[i], "validate")
              /\ tasks[i].pc = "done"
        /\ tasks[i].pc = "handler" => Calls(tasks[i]) = <<>>

C3_Witness ==
    \E i \in TaskIds :
        /\ Has(tasks[i], "return nil")
        /\ tasks[i].pc = "done"
        /\ tasks[i].herr = "nil"

\* C4: a delivery whose handler returns a non-nil error is rejected with
\* requeue=false exactly once and never acked.
C4_HandlerErrorRejected ==
    \A i \in TaskIds :
        Has(tasks[i], "return err") =>
            /\ Calls(tasks[i]) = <<"Reject(false)">>
            /\ Has(tasks[i], "run failed")
            /\ tasks[i].pc = "done"

C4_Witness ==
    \E i \in TaskIds :
        /\ Has(tasks[i], "return err")
        /\ tasks[i].pc = "done"

\* C5: a dispatch whose lookup comes after Register(n, h) and Unregister(n)
\* fails with "handler not found": no handler runs, the delivery is rejected
\* with requeue=false and never acked; a dispatch to a name whose last
\* registry call is Register runs that name's handler.
C5_UnregisteredNotFound ==
    \A i \in TaskIds :
        /\ tasks[i].seen = "Unregister" =>
              /\ Has(tasks[i], "handler not found")
              /\ ~Invoked(tasks[i])
              /\ tasks[i].cb = "none"
              /\ Calls(tasks[i]) = <<"Reject(false)">>
        /\ tasks[i].seen = "Register" =>
              /\ Invoked(tasks[i])
              /\ tasks[i].cb \in Callbacks
              /\ ~Has(tasks[i], "handler not found")

C5_Witness ==
    \E i, j \in TaskIds :
        /\ tasks[i].seen = "Unregister"
        /\ tasks[i].pc = "done"
        /\ tasks[j].seen = "Register"
        /\ tasks[j].d.name # tasks[i].d.name
        /\ j > i

\* C6: a runtime fault in the pool task of one delivery is captured by the
\* recovery callback and stops nothing else: the step leaves the
\* stream-reading loop, Subscribe and every sibling task as they were, the loop
\* ends only on cancellation, and every delivery pulled after a fault is still
\* processed to the end of its own task (with its one terminal call, unless
\* its own handler faults).
C6_FaultStep ==
    \A i \in TaskIds :
        (tasks[i].pc = "handler" /\ tasks'[i].pc = "faulted") =>
            /\ recovered' = recovered + 1
            /\ wg' = wg - 1
            /\ loopPc' = loopPc
            /\ subPc' = subPc
            /\ stream' = stream
            /\ Len(tasks') = Len(tasks)
            /\ \A j \in TaskIds \ {i} : tasks'[j] = tasks[j]

C7_ReturnOnlyAfterCancelAndDrain ==
    subPc = "returned" =>
        /\ cancelled
        /\ loopPc = "exited"
        /\ \A i \in TaskIds : Finished(tasks[i])
        /\ wg = 0

C7_Witness ==
    /\ subPc = "returned"
    /\ Len(tasks) = MaxTasks
    /\ \E i \in TaskIds : Has(tasks[i], "return nil")

\* C8: once the context is canceled while Subscribe is running, Subscribe
\* eventually returns nil, whatever the broker and the stream do.
C8_CancelLeadsToReturn ==
    (cancelled /\ subPc = "waiting") ~> (subPc = "returned" /\ subRet = "nil")

C8_Witness ==
    /\ subPc = "returned"
    /\ subRet = "nil"
    /\ stream = "closed"
    /\ \E i \in TaskIds : tasks[i].d.kind = "zero"
    /\ \E i \in TaskIds : tasks[i].d.kind = "ok"

\* C9: no per-message error reaches the caller of Subscribe: the only value
\* Subscribe returns is nil, a step in which a task fails, faults or ends does
\* not make Subscribe return, and Subscribe returns only on cancellation.
C9_ReturnStep ==
    /\ (subPc' = "returned" /\ subPc # "returned") =>
          (cancelled /\ subRet' = "nil" /\ tasks' = tasks /\ recovered' = recovered)
    /\ (\E i \in TaskIds : tasks'[i] # tasks[i]) =>
          (subPc' = subPc /\ subRet' = subRet)

C9_NoPerMessageErrorReturned ==
    /\ [][C9_ReturnStep]_vars
    /\ [](subRet = (IF subPc = "returned" THEN "nil" ELSE "none"))

C9_Witness ==
    /\ subPc = "returned"
    /\ subRet = "nil"
    /\ \E i \in TaskIds : tasks[i].herr = "err"
    /\ \E i \in TaskIds : tasks[i].pc = "faulted"

\* C10: a delivery whose payload fails structural decoding or validation is
\* rejected with requeue=false exactly once, its Task Parameter goes back to
\* the payload pool, and no handler runs.
C10_DecodeFailureReleasesParam ==
    \A i \in TaskIds :
        (Has(tasks[i], "decode failed") \/ Has(tasks[i], "validate failed")) =>
            /\ Calls(tasks[i]) = <<"Reject(false)">>
            /\ ~Invoked(tasks[i])
            /\ Has(tasks[i], "put")

\* Position of the first occurrence of event e in a task's history, 0 if none.
Pos(t, e) ==
    IF Has(t, e) THEN CHOOSE k \in 1..Len(t.ev) :
                        t.ev[k] = e /\ \A m \in 1..(k - 1) : t.ev[m] # e
    ELSE 0

Dispatched(t) == Has(t, "lookup")

\* C11: the Task Parameter of every delivery that reached dispatch is back in
\* the payload pool once manager.Run has finished, whatever the outcome
\* (success, error, handler not found, fault in the handler), and the return
\* comes before the Ack or Reject call.
C11_ParamReturnedAfterRun ==
    \A i \in TaskIds :
        (Dispatched(tasks[i]) /\ Finished(tasks[i])) =>
            /\ Has(tasks[i], "put")
            /\ \A k \in 1..Len(tasks[i].ev) :
                  IsTerminal(tasks[i].ev[k]) => Pos(tasks[i], "put") < k

\* A message uses its Task Parameter from Get until manager.Run has returned.
InUse(t) == t.pc \in {"run", "handler"}

AfterPutEvents ==
    {"run failed", "handle failed", "Ack(false)", "Ack(true)",
     "Reject(false)", "Reject(true)"}

\* C12: a Task Parameter instance is held by at most one in-flight message: an
\* instance in use is not lying in the pool, no two messages use the same
\* instance, no acquisition is put back twice, and after the Put the consumer
\* neither decodes into the instance nor passes it to a handler.
C12_ParamExclusive ==
    \A i \in TaskIds :
        /\ InUse(tasks[i]) =>
              /\ tasks[i].param # 0
              /\ tasks[i].param \notin free
              /\ \A j \in TaskIds \ {i} :
                    InUse(tasks[j]) => tasks[j].param # tasks[i].param
        /\ Count(tasks[i], "put") <= 1
        /\ Has(tasks[i], "put") =>
              \A k \in (Pos(tasks[i], "put") + 1)..Len(tasks[i].ev) :
                  tasks[i].ev[k] \in AfterPutEvents

C12_Witness ==
    \E i, j \in TaskIds :
        /\ i # j
        /\ Has(tasks[i], "put")
        /\ tasks[i].pc = "done"
        /\ tasks[j].pc = "handler"
        /\ tasks[j].param = tasks[i].param

\* C13: when the broker closes the delivery stream while the context is not
\* canceled, handleMessage leaves its loop (and the outer loop goes on to call
\* Consume again): on a closed stream it can take its exit.
C13_ClosedStreamExits ==
    (loopPc = "handle" /\ stream = "closed" /\ ~cancelled) =>
        ENABLED HandleMessageExit

\* C14: every per-delivery task was submitted for a delivery the broker sent:
\* the number of tasks submitted equals the number of deliveries pulled.
DeliveriesPulled == Cardinality({i \in TaskIds : tasks[i].d.kind \in RealKinds})

C14_OneTaskPerDelivery == Len(tasks) = DeliveriesPulled

ConsumeCalled == loopPc = "consume" /\ loopPc' # "consume"
TaskSubmitted == Len(tasks') > Len(tasks)

\* C15 as stated: after the context is canceled there is no further Consume
\* call and no new per-delivery task.
C15_NothingNewAfterCancel ==
    [][cancelled => (~ConsumeCalled /\ ~TaskSubmitted)]_vars

\* C15 as amended: after cancellation the outer loop never passes its
\* cancellation check again (only a Consume call whose check had already
\* passed is still made), handleMessage submits nothing more once its select
\* has taken the ctx.Done case, the exited loop does nothing, and cancellation
\* aborts no task: a running handler that returns still gets its one Ack or
\* Reject.
C15_AmendedStep ==
    /\ (cancelled /\ loopPc = "top") =>
          (loopPc' \in {"top", "exited"} /\ ~TaskSubmitted)
    /\ loopPc = "exited" =>
          (loopPc' = "exited" /\ ~TaskSubmitted /\ ~ConsumeCalled)
    /\ (~cancelled /\ cancelled') => (tasks' = tasks /\ wg' = wg)
    /\ \A i \in TaskIds :
          (cancelled /\ tasks[i].pc = "handler" /\ tasks'[i].pc = "done") =>
              Len(Calls(tasks'[i])) = 1

C15_AfterCancel == [][C15_AmendedStep]_vars

C15_Witness ==
    /\ cancelled
    /\ loopPc = "exited"
    /\ \E i \in TaskIds : tasks[i].pc = "handler"
    /\ \E i \in TaskIds : tasks[i].pc = "done" /\ Has(tasks[i], "return nil")

StepEvents ==
    {"unmarshal", "get", "decode", "validate", "lookup", "invoke",
     "return nil", "return err", "panic", "put"}

\* C17: within one delivery the steps come in order and none is skipped: the
\* handler is invoked only after envelope decode, payload decode and
\* validation succeeded, the Ack or Reject after a dispatch comes after the
\* handler has returned, and no step happens twice.
C17_PipelineOrder ==
    \A i \in TaskIds :
        LET t == tasks[i] IN
        /\ (t.pc = "run" \/ Dispatched(t)) =>
              /\ t.d.kind = "ok"
              /\ Len(t.ev) >= 4
              /\ SubSeq(t.ev, 1, 4) = <<"unmarshal", "get", "decode", "validate">>
        /\ Invoked(t) =>
              /\ t.d.kind = "ok"
              /\ Len(t.ev) >= 6
              /\ SubSeq(t.ev, 1, 6) =
                    <<"unmarshal", "get", "decode", "validate", "lookup", "invoke">>
        /\ (Invoked(t) /\ Calls(t) # <<>>) =>
              /\ Has(t, "return nil") \/ Has(t, "return err")
              /\ \A k \in 1..Len(t.ev) :
                    IsTerminal(t.ev[k]) =>
                        /\ Pos(t, "invoke") < k
                        /\ Pos(t, "return nil") < k
                        /\ Pos(t, "return err") < k
        /\ \A e \in StepEvents : Count(t, e) <= 1

C17_Witness ==
    \E i \in TaskIds :
        /\ tasks[i].pc = "done"
        /\ tasks[i].ev = <<"unmarshal", "get", "decode", "validate", "lookup",
                           "invoke", "return err", "put", "run failed",
                           "Reject(false)">>

\* C18: when the Ack or Reject call itself returns an error, no second Ack or
\* Reject is made on the delivery; the error is returned by handle and logged
\* by the pool task, and the Task Parameter has been put back exactly when it
\* has on the same path without the error.
C18_TerminalErrorNotRetried ==
    \A i \in TaskIds :
        LET t == tasks[i] IN
        /\ t.herr = "err" =>
              /\ t.pc = "done"
              /\ Len(Calls(t)) = 1
              /\ Len(t.ev) >= 2
              /\ t.ev[Len(t.ev)] = "handle failed"
              /\ IsTerminal(t.ev[Len(t.ev) - 1])
              /\ Count(t, "handle failed") = 1
        /\ t.herr = "nil" => ~Has(t, "handle failed")
        /\ t.pc = "done" => (Has(t, "put") <=> Dispatched(t))

C18_Witness ==
    \E i, j \in TaskIds :
        /\ tasks[i].herr = "err"
        /\ Has(tasks[i], "Ack(false)")
        /\ tasks[j].herr = "err"
        /\ Has(tasks[j], "Reject(false)")

\* C19: when a handler raises a runtime fault, the recovery callback runs for
\* that task and the task ends there: no Ack, no Reject, and its Task
\* Parameter never goes back to the payload pool.
C19_FaultLeavesDeliveryOpen ==
    /\ recovered = Cardinality({i \in TaskIds : tasks[i].pc = "faulted"})
    /\ \A i \in TaskIds :
          /\ Has(tasks[i], "panic") <=> tasks[i].pc = "faulted"
          /\ tasks[i].pc = "faulted" =>
                /\ Has(tasks[i], "recover")
                /\ Calls(tasks[i]) = <<>>
                /\ ~Has(tasks[i], "put")
                /\ tasks[i].param \notin free
                /\ tasks[i].herr = "none"

C19_Witness ==
    /\ subPc = "returned"
    /\ \E i \in TaskIds : tasks[i].pc = "faulted"

\* A step in which a Consume call fails.
ConsumeFailed == loopPc = "consume" /\ fails' = fails + 1

C16_Step ==
    /\ ConsumeFailed =>
          /\ loopPc' = "top"
          /\ UNCHANGED <<tasks, wg, stream, subPc, subRet, cancelled>>
    /\ (loopPc = "top" /\ ~cancelled /\ loopPc' # loopPc) => loopPc' = "consume"
    /\ (loopPc = "consume" /\ ~ConsumeFailed /\ loopPc' # loopPc) =>
          /\ loopPc' = "handle"
          /\ stream' = "open"

\* C16: a failed Consume processes no delivery, ends neither the loop nor
\* Subscribe and leads back to the top of the loop, where, unless cancelled,
\* the only way on is another Consume; this holds after any number of
\* failures, and a Consume that succeeds opens the stream for handleMessage.
C16_ConsumeFailureRetried ==
    /\ [][C16_Step]_vars
    /\ []((fails > 0 /\ ~cancelled) => (subPc = "waiting" /\ loopPc # "exited"))

C16_Witness ==
    /\ fails = MaxFails
    /\ ~cancelled
    /\ loopPc = "handle"
    /\ \E i \in TaskIds : Acked(tasks[i])

----------------------------------------------------------------------------
(* Package e                                                                 *)

WithNames == {"WithStatusCode", "WithCode", "WithMessage", "WithResult"}

\* The largest status s for which s * codeBit + c fits an int for every
\* 5-digit c.
MaxStatus == (MaxInt - (codeBit - 1)) \div codeBit

C20_Common ==
    /\ op.name \in WithNames => recv = op.before
    /\ op.name \in {"WithStatusCode", "WithCode"} =>
          (res.msg = op.before.msg /\ res.result = op.before.result)
    /\ op.name = "WithMessage" =>
          (res.code = op.before.code /\ res.result = op.before.result)
    /\ op.name = "WithResult" =>
          (res.code = op.before.code /\ res.msg = op.before.msg)

\* C20 as stated: for every e with a non-negative stored code, every status
\* s >= 0 and every c in 0..99999, WithStatusCode(s) yields status s and the
\* old error code, WithCode(c) yields error code c and the old status, and
\* every With... call returns a copy and leaves its receiver unchanged.
C20_RoundTrip ==
    /\ C20_Common
    /\ (op.name = "WithStatusCode" /\ op.before.code >= 0 /\ op.n >= 0) =>
          (StatusCode(res) = op.n /\ Code(res) = Code(op.before))
    /\ (op.name = "WithCode" /\ op.before.code >= 0 /\ op.n \in 0..(codeBit - 1)) =>
          (Code(res) = op.n /\ StatusCode(res) = StatusCode(op.before))

\* C20, amended: the same, for statuses that leave room for a 5-digit error
\* code in an int, that is s <= MaxStatus for WithStatusCode and
\* StatusCode(e) <= MaxStatus for WithCode.
C20_RoundTripInRange ==
    /\ C20_Common
    /\ (op.name = "WithStatusCode" /\ op.before.code >= 0
            /\ op.n \in 0..MaxStatus) =>
          (StatusCode(res) = op.n /\ Code(res) = Code(op.before)
             /\ res.code = op.n * codeBit + Code(op.before))
    /\ (op.name = "WithCode" /\ op.before.code >= 0
            /\ StatusCode(op.before) <= MaxStatus /\ op.n \in 0..(codeBit - 1)) =>
          (Code(res) = op.n /\ StatusCode(res) = StatusCode(op.before)
             /\ res.code = StatusCode(op.before) * codeBit + op.n)

C20_Witness ==
    /\ op.chain > 0
    /\ op.name = "WithStatusCode"
    /\ op.before.code >= 0
    /\ op.n \in 1..MaxStatus
    /\ StatusCode(op.before) \notin {0, op.n}
    /\ Code(op.before) # 0
    /\ res # recv
====
